---- MODULE Spec2Model ----
(***************************************************************************)
(* Text location in a PDF page: the strategy cascade of                    *)
(* worker/scripts/find_text_in_pdf.py and its sibling                      *)
(* worker/scripts/get_pdf_selection_rects.py.                              *)
(*                                                                         *)
(* A string is a sequence of one-character tokens.  Characters outside     *)
(* ASCII are written by their code point ("u201C" is the left curly double *)
(* quote, "u00AD" the soft hyphen, "u2013" the en dash, "u0130" the capital *)
(* I with a dot above).                                                    *)
(***************************************************************************)
EXTENDS Integers, Sequences, FiniteSets, TLC

VARIABLES
    fn,           \* entry point of the call under way
    page_text,    \* text of the page, as page.get_text() returns it
    page_width,   \* page.rect.x1 (page.rect.x0 = 0)
    page_height,  \* page.rect.y1 (page.rect.y0 = 0)
    search_text,  \* the query
    page_num,     \* 1-indexed page number passed by the caller
    fault,        \* the place at which a PyMuPDF primitive raises, or "none"
    pc,           \* position of the call in the cascade
    attempted,    \* strategies attempted so far, in order
    yield,        \* what each attempted strategy produced
    trace,        \* per-strategy diagnostics (ratios, anchors, offsets)
    result,       \* the list the call returned
    outcome,      \* "running", "returned" or "raised"
    doc,          \* [state, closes] of the opened document
    call          \* a single call of a pure helper: [op, arg, out, again]

vars == <<fn, page_text, page_width, page_height, search_text, page_num, fault,
          pc, attempted, yield, trace, result, outcome, doc, call>>

(***************************************************************************)
(* Characters                                                              *)
(***************************************************************************)
\* \s of the re module
Whitespace == {" ", "\n", "\t"}

\* the character class of find_text_in_pdf.py:368
QuoteChars == {"\"", "'", "u0060", "u00B4", "u2018", "u2019", "u201A", "u201B",
               "u201C", "u201D", "u201E", "u201F"}

\* the character class of find_text_in_pdf.py:372
DashChars == {"u2010", "u2011", "u2012", "u2013", "u2014", "u2015", "u2212"}

SoftHyphen == "u00AD"

\* the character class [,.!?;:] of find_text_in_pdf.py:383
Punctuation == {",", ".", "!", "?", ";", ":"}

\* the character class [.!?] of find_text_in_pdf.py:432
SentenceEnd == {".", "!", "?"}

UpperCase == <<"A", "B", "C", "D", "E", "F", "G", "H", "I", "J", "K", "L", "M",
               "N", "O", "P", "Q", "R", "S", "T", "U", "V", "W", "X", "Y", "Z">>
LowerCase == <<"a", "b", "c", "d", "e", "f", "g", "h", "i", "j", "k", "l", "m",
               "n", "o", "p", "q", "r", "s", "t", "u", "v", "w", "x", "y", "z">>

\* str.lower() on one character
LowerChar(c) ==
    IF \E i \in 1..Len(UpperCase) : UpperCase[i] = c
    THEN LowerCase[CHOOSE i \in 1..Len(UpperCase) : UpperCase[i] = c]
    ELSE c

\* str.lower().  The capital I with a dot above ("u0130") lowers to two
\* characters, an i and the combining dot above ("u0307"); every other
\* character of the model lowers to one.
lower(s) ==
    LET RECURSIVE lower_from(_)
        lower_from(i) ==
            IF i > Len(s) THEN <<>>
            ELSE (IF s[i] = "u0130" THEN <<"i", "u0307">> ELSE <<LowerChar(s[i])>>)
                 \o lower_from(i + 1)
    IN  IF \A i \in 1..Len(s) : s[i] # "u0130"
        THEN [i \in 1..Len(s) |-> LowerChar(s[i])]
        ELSE lower_from(1)

(***************************************************************************)
(* Sequence helpers                                                        *)
(***************************************************************************)
Min(a, b) == IF a < b THEN a ELSE b
Max(a, b) == IF a > b THEN a ELSE b

\* the members of a finite set of integers in increasing order
SortedSeq(S) ==
    LET rank == [i \in S |-> Cardinality({j \in S : j <= i})]
    IN  [k \in 1..Cardinality(S) |-> CHOOSE i \in S : rank[i] = k]

\* the elements of s at the sorted indices idx
At(s, idx) == [k \in 1..Len(idx) |-> s[idx[k]]]

\* the elements of s at the indices where keep is TRUE, in order
Keep(s, keep) == At(s, SortedSeq({i \in 1..Len(s) : keep[i]}))

\* Python slice s[lo:hi] with 0 <= lo (0-based, half-open, clipped to the string)
Slice(s, lo, hi) ==
    IF lo >= Min(hi, Len(s)) THEN <<>> ELSE SubSeq(s, lo + 1, Min(hi, Len(s)))

\* the least member of a set of offsets, -1 for the empty set
FirstOffset(at) == IF at = {} THEN -1 ELSE CHOOSE i \in at : \A j \in at : i <= j

\* str.find: 0-based index of the first occurrence of needle in s, or -1
Find(s, needle) ==
    FirstOffset({i \in 0..(Len(s) - Len(needle)) : Slice(s, i, i + Len(needle)) = needle})

\* whether every character of s[lo..hi] (1-based, inclusive) is whitespace
AllSpace(s, lo, hi) == \A k \in lo..hi : s[k] \in Whitespace

(***************************************************************************)
(* Text Normalizer.  The substitutions work on sequences of pairs          *)
(* <<character, index of the input character it derives from>>, so that    *)
(* the origin of every output character stays known; the normalizers       *)
(* proper return the characters.                                           *)
(***************************************************************************)
Tag(s) == [i \in 1..Len(s) |-> <<s[i], i>>]
Chars(t) == [i \in 1..Len(t) |-> t[i][1]]
Origins(t) == [i \in 1..Len(t) |-> t[i][2]]

\* re.sub(r'\s+', ' ', t): the first character of each whitespace run becomes
\* a space, the others go
CollapseSpace(t) ==
    LET c == Chars(t)
        keep == [i \in 1..Len(t) |->
                    c[i] \notin Whitespace \/ i = 1 \/ c[i - 1] \notin Whitespace]
        sub == [i \in 1..Len(t) |->
                    IF c[i] \in Whitespace THEN <<" ", t[i][2]>> ELSE t[i]]
    IN  Keep(sub, keep)

\* re.sub over a character class: every member becomes `to`
MapClass(t, class, to) ==
    [i \in 1..Len(t) |-> IF t[i][1] \in class THEN <<to, t[i][2]>> ELSE t[i]]

\* str.replace(ch, '')
DropChar(t, ch) == Keep(t, [i \in 1..Len(t) |-> t[i][1] # ch])

\* re.sub(r'-\s+', '', t): a hyphen directly followed by whitespace goes,
\* together with the whole whitespace run
DropHyphenBreak(t) ==
    LET c == Chars(t)
        n == Len(t)
        gone == [i \in 1..n |->
                   \/ c[i] = "-" /\ i < n /\ c[i + 1] \in Whitespace
                   \/ /\ c[i] \in Whitespace
                      /\ \E j \in 1..(i - 1) : c[j] = "-" /\ AllSpace(c, j + 1, i)]
    IN  Keep(t, [i \in 1..n |-> ~gone[i]])

\* a normalizer that leaves the whitespace before punctuation marks alone
KeepSpaceBeforePunct(t) == t

\* re.sub(r'\s+([,.!?;:])', r'\1', t): a whitespace run directly before a
\* punctuation mark goes
DropSpaceBeforePunct(t) ==
    LET c == Chars(t)
        n == Len(t)
        gone == [i \in 1..n |->
                   /\ c[i] \in Whitespace
                   /\ \E j \in (i + 1)..n : c[j] \in Punctuation /\ AllSpace(c, i, j - 1)]
    IN  Keep(t, [i \in 1..n |-> ~gone[i]])

\* re.sub(r'([,.!?;:])\s+', r'\1 ', t): a whitespace run directly after a
\* punctuation mark becomes one space
OneSpaceAfterPunct(t) ==
    LET c == Chars(t)
        n == Len(t)
        after == [i \in 1..n |->
                   /\ c[i] \in Whitespace
                   /\ \E j \in 1..(i - 1) : c[j] \in Punctuation /\ AllSpace(c, j + 1, i)]
        keep == [i \in 1..n |-> ~after[i] \/ c[i - 1] \in Punctuation]
        sub == [i \in 1..n |-> IF after[i] THEN <<" ", t[i][2]>> ELSE t[i]]
    IN  Keep(sub, keep)

\* str.strip()
Strip(t) ==
    LET c == Chars(t)
        n == Len(t)
    IN  Keep(t, [i \in 1..n |-> ~AllSpace(c, 1, i) /\ ~AllSpace(c, i, n)])

\* str.split(): the maximal runs of non-whitespace characters
\* the runs of s that start at the sorted indices ss
runs_at(s, ss) ==
    LET EndOf(i) == CHOOSE j \in i..Len(s) :
                        /\ \A k \in i..j : s[k] \notin Whitespace
                        /\ (j = Len(s) \/ s[j + 1] \in Whitespace)
    IN  [k \in 1..Len(ss) |-> SubSeq(s, ss[k], EndOf(ss[k]))]

Split(s) ==
    runs_at(s, SortedSeq({i \in 1..Len(s) :
                            s[i] \notin Whitespace
                            /\ (i = 1 \/ s[i - 1] \in Whitespace)}))

\* ' '.join(words)
RECURSIVE Join(_)
Join(ws) ==
    IF ws = <<>> THEN <<>>
    ELSE IF Len(ws) = 1 THEN ws[1]
    ELSE ws[1] \o <<" ">> \o Join(Tail(ws))

\* find_text_in_pdf.py normalize_whitespace
normalize_whitespace(text) == Chars(CollapseSpace(Tag(text)))

\* the substitutions of normalize_text_aggressive with the hyphen breaks
\* removed before the dashes are mapped
HyphenBreakFirst(t) ==
    LET b == DropHyphenBreak(t)
        q == MapClass(b, QuoteChars, "@")
        d == MapClass(q, DashChars, "-")
        h == DropChar(d, SoftHyphen)
        w == CollapseSpace(h)
        p == DropSpaceBeforePunct(w)
        a == OneSpaceAfterPunct(p)
    IN  Strip(a)

\* find_text_in_pdf.py normalize_text_aggressive, on tagged text
AggressiveTagged(t) ==
    LET q == MapClass(t, QuoteChars, "@")
        d == MapClass(q, DashChars, "-")
        h == DropChar(d, SoftHyphen)
        b == DropHyphenBreak(h)
        w == CollapseSpace(b)
        p == DropSpaceBeforePunct(w)
        a == OneSpaceAfterPunct(p)
    IN  Strip(a)

normalize_text_aggressive(text) == Chars(AggressiveTagged(Tag(text)))

\* get_pdf_selection_rects.py normalize_whitespace
sel_normalize_whitespace(text) == Join(Split(text))

\* get_pdf_selection_rects.py normalize_text_aggressive, on tagged text
SelAggressiveTagged(t) ==
    LET q == MapClass(t, QuoteChars, "@")
        d == MapClass(q, DashChars, "-")
        h == DropChar(d, SoftHyphen)
        w == CollapseSpace(h)
    IN  Strip(w)

sel_normalize_text_aggressive(text) == Chars(SelAggressiveTagged(Tag(text)))

(***************************************************************************)
(* Numbers.  Coordinates and ratios are exact fractions [n, d], d > 0, in  *)
(* lowest terms.                                                           *)
(***************************************************************************)
RECURSIVE Gcd(_, _)
Gcd(a, b) == IF b = 0 THEN a ELSE Gcd(b, a % b)

Abs(n) == IF n < 0 THEN -n ELSE n

Frac(n, d) ==
    LET g == Gcd(Abs(n), Abs(d))
        sgn == IF d < 0 THEN -1 ELSE 1
    IN  IF n = 0 THEN [n |-> 0, d |-> 1]
        ELSE [n |-> sgn * (n \div g), d |-> sgn * (d \div g)]

Rat(n) == [n |-> n, d |-> 1]
RAdd(a, b) == Frac(a.n * b.d + b.n * a.d, a.d * b.d)
RSub(a, b) == Frac(a.n * b.d - b.n * a.d, a.d * b.d)
RMul(a, b) == Frac(a.n * b.n, a.d * b.d)
RDiv(a, b) == Frac(a.n * b.d, a.d * b.n)
RLt(a, b) == a.n * b.d < b.n * a.d
RLe(a, b) == a.n * b.d <= b.n * a.d
RMin(a, b) == IF RLe(a, b) THEN a ELSE b
\* int(): truncation of a non-negative fraction
RInt(a) == a.n \div a.d

(***************************************************************************)
(* The page as PyMuPDF presents it.  The page is laid out from its text:   *)
(* "\n" ends a line, every other character occupies one unit cell of its   *)
(* line, and a line is one unit high.                                      *)
(***************************************************************************)
\* 0-based line of the character at 1-based index i
LineOf(text, i) == Cardinality({k \in 1..(i - 1) : text[k] = "\n"})

\* 0-based column of the character at 1-based index i
ColOf(text, i) ==
    LET nl == {k \in 1..(i - 1) : text[k] = "\n"}
    IN  IF nl = {} THEN i - 1 ELSE i - 1 - (CHOOSE k \in nl : \A m \in nl : m <= k)

\* fitz.Rect(x0, y0, x1, y1)
Rect(x0, y0, x1, y1) == [x0 |-> x0, y0 |-> y0, x1 |-> x1, y1 |-> y1]

RectWidth(r) == RSub(r.x1, r.x0)
RectHeight(r) == RSub(r.y1, r.y0)

\* the rectangle around the characters lo..hi (1-based, inclusive) of one line
CellsRect(text, lo, hi) ==
    Rect(Rat(ColOf(text, lo)), Rat(LineOf(text, lo)),
         Rat(ColOf(text, hi) + 1), Rat(LineOf(text, lo) + 1))

\* a fitz.Quad: the four corners of a rectangle
Point(x, y) == [x |-> x, y |-> y]
Quad(r) == [ul |-> Point(r.x0, r.y0), ur |-> Point(r.x1, r.y0),
            ll |-> Point(r.x0, r.y1), lr |-> Point(r.x1, r.y1)]

\* Quad.rect: the rectangle around the four corners
QuadRect(q) ==
    Rect(RMin(q.ul.x, q.ll.x), RMin(q.ul.y, q.ur.y),
         IF RLe(q.ur.x, q.lr.x) THEN q.lr.x ELSE q.ur.x,
         IF RLe(q.ll.y, q.lr.y) THEN q.lr.y ELSE q.ll.y)

\* the words that start at the sorted 1-based indices ss of text
words_at(text, ss) ==
    LET n == Len(text)
        EndOf(i) == CHOOSE j \in i..n :
                        /\ \A k \in i..j : text[k] \notin Whitespace
                        /\ (j = n \/ text[j + 1] \in Whitespace)
    IN  [k \in 1..Len(ss) |->
            [rect |-> CellsRect(text, ss[k], EndOf(ss[k])),
             text |-> SubSeq(text, ss[k], EndOf(ss[k]))]]

\* page.get_text("words"): the maximal runs of non-whitespace characters in
\* reading order, each with its rectangle
get_text_words(text) ==
    words_at(text, SortedSeq({i \in 1..Len(text) :
                                 text[i] \notin Whitespace
                                 /\ (i = 1 \/ text[i - 1] \in Whitespace)}))

\* the boxes of the lines the words ws stand on, around their words
line_boxes(ws) ==
    LET ys == {ws[k].rect.y0.n : k \in 1..Len(ws)}
        On(y) == {k \in 1..Len(ws) : ws[k].rect.y0.n = y}
        First(y) == CHOOSE k \in On(y) : \A m \in On(y) : k <= m
        Last(y) == CHOOSE k \in On(y) : \A m \in On(y) : m <= k
        Box(y) == Rect(ws[First(y)].rect.x0, Rat(y), ws[Last(y)].rect.x1, Rat(y + 1))
        Boxes(ls) == [i \in 1..Len(ls) |-> Box(ls[i])]
    IN  Boxes(SortedSeq(ys))

\* page.get_text("dict")["blocks"][..]["lines"][..]["bbox"]: one box per
\* line of text that holds a word
get_text_lines(text) == line_boxes(get_text_words(text))

\* the rectangles of one hit at the 1-based indices lo..hi: one per line touched
RECURSIVE HitRects(_, _, _)
HitRects(text, lo, hi) ==
    IF lo > hi THEN <<>>
    ELSE LET sameLine == {k \in lo..hi : \A m \in lo..(k - 1) : text[m] # "\n"}
             e == CHOOSE k \in sameLine : \A m \in sameLine : m <= k
         IN  <<CellsRect(text, lo, e)>> \o HitRects(text, e + 1, hi)

\* the hits of needle at or after the 0-based offset `from`, left to right,
\* not overlapping
RECURSIVE HitsFrom(_, _, _)
RECURSIVE HitsAt(_, _, _)
HitsAt(text, needle, i) ==
    IF i = -1 THEN <<>>
    ELSE HitRects(text, i + 1, i + Len(needle))
         \o HitsFrom(text, needle, i + Len(needle))

HitsFrom(text, needle, from) ==
    HitsAt(text, needle,
           FirstOffset({i \in from..(Len(text) - Len(needle)) :
                           Slice(text, i, i + Len(needle)) = needle}))

\* page.search_for(needle): the rectangles of the occurrences of needle in
\* the page text ("exact match"); an empty needle has no hit
search_for(text, needle) ==
    IF needle = <<>> THEN <<>> ELSE HitsFrom(text, needle, 0)

\* page.search_for(needle, quads=True)
search_for_quads(text, needle) ==
    LET r == search_for(text, needle) IN [i \in 1..Len(r) |-> Quad(r[i])]

(***************************************************************************)
(* Word Index: get_words_in_range                                          *)
(***************************************************************************)
\* a walk that leaves no separator between the words
same_char_pos(word_end) == word_end

\* char_pos = word_end + 1
next_char_pos(word_end) == word_end + 1

\* the character range the walk assigns to each word of the list
RECURSIVE OffsetsFrom(_, _, _)
OffsetsFrom(words, k, char_pos) ==
    IF k > Len(words) THEN <<>>
    ELSE LET word_start == char_pos
             word_end == char_pos + Len(words[k].text)
         IN  <<[word_start |-> word_start, word_end |-> word_end]>>
             \o OffsetsFrom(words, k + 1, next_char_pos(word_end))

word_offsets(words) == OffsetsFrom(words, 1, 0)

\* the test with closed ends
word_touches_range(word_start, word_end, start_pos, end_pos) ==
    word_end >= start_pos /\ word_start <= end_pos

\* if word_end > start_pos and word_start < end_pos
word_in_range(word_start, word_end, start_pos, end_pos) ==
    word_end > start_pos /\ word_start < end_pos

\* the words of the list taken for the range, given their offsets
taken(off, start_pos, end_pos) ==
    [k \in 1..Len(off) |->
        word_in_range(off[k].word_start, off[k].word_end, start_pos, end_pos)]

\* get_words_in_range (the two scripts hold the same code): the rectangles
\* of the words taken, in list order
get_words_in_range(words, start_pos, end_pos) ==
    Keep([k \in 1..Len(words) |-> words[k].rect],
         taken(word_offsets(words), start_pos, end_pos))

(***************************************************************************)
(* difflib.SequenceMatcher(None, a, b).ratio(), for b shorter than 200     *)
(* characters (no popular-element heuristic).  Offsets are 0-based and     *)
(* ranges half-open, as in difflib.                                        *)
(***************************************************************************)
RunLen(a, b, i, j, ahi, bhi) ==
    CHOOSE k \in 0..Min(ahi - i, bhi - j) :
        /\ \A m \in 1..k : a[i + m] = b[j + m]
        /\ (k = Min(ahi - i, bhi - j) \/ a[i + k + 1] # b[j + k + 1])

\* the best of a set of runs <<i, j, k>>: k largest, then i least, then j least
best_run(runs, alo, blo) ==
    LET Better(x, y) == \/ x[3] > y[3]
                        \/ x[3] = y[3] /\ x[1] < y[1]
                        \/ x[3] = y[3] /\ x[1] = y[1] /\ x[2] <= y[2]
        best == CHOOSE x \in runs : \A y \in runs : Better(x, y)
    IN  IF runs = {} THEN [i |-> alo, j |-> blo, k |-> 0]
        ELSE [i |-> best[1], j |-> best[2], k |-> best[3]]

\* find_longest_match: [i, j, k] with a[i:i+k] = b[j:j+k], k largest, then
\* i least, then j least; i = alo, j = blo, k = 0 when nothing matches
find_longest_match(a, b, alo, ahi, blo, bhi) ==
    best_run({<<p[1], p[2], RunLen(a, b, p[1], p[2], ahi, bhi)>> :
                 p \in {q \in (alo..(ahi - 1)) \X (blo..(bhi - 1)) :
                          /\ a[q[1] + 1] = b[q[2] + 1]
                          /\ (q[1] = alo \/ q[2] = blo \/ a[q[1]] # b[q[2]])}},
             alo, blo)

\* the total size of get_matching_blocks()
RECURSIVE matching_size(_, _, _, _, _, _)
RECURSIVE matching_around(_, _, _, _, _, _, _)
matching_around(a, b, alo, ahi, blo, bhi, m) ==
    IF m.k = 0 THEN 0
    ELSE m.k + matching_size(a, b, alo, m.i, blo, m.j)
             + matching_size(a, b, m.i + m.k, ahi, m.j + m.k, bhi)

matching_size(a, b, alo, ahi, blo, bhi) ==
    IF alo >= ahi \/ blo >= bhi THEN 0
    ELSE matching_around(a, b, alo, ahi, blo, bhi,
                         find_longest_match(a, b, alo, ahi, blo, bhi))

\* ratio(): 2.0 * matches / (len(a) + len(b)), 1.0 for two empty strings
ratio(a, b) ==
    IF Len(a) + Len(b) = 0 THEN Rat(1)
    ELSE Frac(2 * matching_size(a, b, 0, Len(a), 0, Len(b)), Len(a) + Len(b))

(***************************************************************************)
(* Similarity Scanner: fuzzy_search_in_page                                *)
(***************************************************************************)
\* threshold=0.85 of the calls
DefaultThreshold == Frac(85, 100)

\* find_text_in_pdf.py: if search_len < 50: threshold = max(threshold, 0.90)
effective_threshold(search_len, threshold) ==
    IF search_len < 50
    THEN (IF RLe(threshold, Frac(90, 100)) THEN Frac(90, 100) ELSE threshold)
    ELSE threshold

\* a scan that moves its window one character at a time
unit_step(search_len) == 1

\* find_text_in_pdf.py: step_size = min(10, max(5, search_len // 20))
step_size(search_len) == Min(10, Max(5, search_len \div 20))

\* get_pdf_selection_rects.py: step_size = 5 if search_len < 100 else 10
sel_step_size(search_len) == IF search_len < 100 THEN 5 ELSE 10

\* the state of the scan before the first window
NoBest == [best_ratio |-> Rat(0), best_position |-> -1, compared |-> <<>>,
           ratios |-> <<>>]

\* a scan in which a window that equals the best ratio replaces the best
scan_update_on_ties(best, i, r) ==
    IF RLe(best.best_ratio, r)
    THEN [best_ratio |-> r, best_position |-> i,
          compared |-> Append(best.compared, i), ratios |-> Append(best.ratios, r)]
    ELSE [best EXCEPT !.compared = Append(best.compared, i),
                      !.ratios = Append(best.ratios, r)]

\* if ratio > best_ratio: best_ratio = ratio; best_position = i
scan_update(best, i, r) ==
    IF RLt(best.best_ratio, r)
    THEN [best_ratio |-> r, best_position |-> i,
          compared |-> Append(best.compared, i), ratios |-> Append(best.ratios, r)]
    ELSE [best EXCEPT !.compared = Append(best.compared, i),
                      !.ratios = Append(best.ratios, r)]

\* a loop that takes a window at every step up to the end of the page text
RECURSIVE fuzzy_scan_past_end(_, _, _, _, _, _)
fuzzy_scan_past_end(search_normalized, page_normalized, search_len, step, i, best) ==
    IF i >= Len(page_normalized) THEN best
    ELSE fuzzy_scan_past_end(search_normalized, page_normalized, search_len, step,
             i + step,
             scan_update(best, i,
                 ratio(search_normalized, Slice(page_normalized, i, i + search_len))))

\* find_text_in_pdf.py: the loop over the windows, from offset i on
RECURSIVE fuzzy_scan(_, _, _, _, _, _)
fuzzy_scan(search_normalized, page_normalized, search_len, step, i, best) ==
    IF i >= Len(page_normalized) - search_len + 1 THEN best
    ELSE fuzzy_scan(search_normalized, page_normalized, search_len, step, i + step,
             scan_update(best, i,
                 ratio(search_normalized, Slice(page_normalized, i, i + search_len))))

\* get_pdf_selection_rects.py: the loop over the windows, with its early
\* exit: if ratio > 0.95: break
RECURSIVE sel_fuzzy_scan(_, _, _, _, _, _)
RECURSIVE sel_scan_on(_, _, _, _, _, _, _)
sel_scan_on(search_normalized, page_normalized, search_len, step, i, best, upd) ==
    IF RLt(best.best_ratio, upd.best_ratio) /\ RLt(Frac(95, 100), upd.best_ratio)
    THEN upd
    ELSE sel_fuzzy_scan(search_normalized, page_normalized, search_len, step,
                        i + step, upd)

sel_fuzzy_scan(search_normalized, page_normalized, search_len, step, i, best) ==
    IF i >= Len(page_normalized) - search_len + 1 THEN best
    ELSE sel_scan_on(search_normalized, page_normalized, search_len, step, i, best,
             scan_update(best, i,
                 ratio(search_normalized, Slice(page_normalized, i, i + search_len))))

\* if best_ratio >= threshold: the words of [best_position, best_position +
\* search_len); otherwise nothing.  `compared` lists the offsets i of the
\* windows page_normalized[i:i + search_len] taken, `ratios` the ratio of
\* each, `window` is their length.
fuzzy_decide(text, search_len, thr, best) ==
    LET hit == RLe(thr, best.best_ratio)
    IN  [rects |-> IF hit
                   THEN get_words_in_range(get_text_words(text), best.best_position,
                                           best.best_position + search_len)
                   ELSE <<>>,
         ratio |-> best.best_ratio, position |-> best.best_position,
         threshold |-> thr, compared |-> best.compared, ratios |-> best.ratios,
         window |-> search_len, hit |-> hit, raised |-> FALSE]

\* a fuzzy search that goes on with its scan when something raises
fuzzy_search_unguarded(text, query, threshold, raises) ==
    fuzzy_decide(text, Len(query), effective_threshold(Len(query), threshold),
        fuzzy_scan(lower(normalize_text_aggressive(query)),
                   lower(normalize_text_aggressive(text)),
                   Len(query), step_size(Len(query)), 0, NoBest))

\* find_text_in_pdf.py fuzzy_search_in_page; `raises` says that a page
\* primitive raises inside it
fuzzy_search_in_page(text, query, threshold, raises) ==
    IF raises
    THEN [rects |-> <<>>, ratio |-> Rat(0), position |-> -1,
          threshold |-> effective_threshold(Len(query), threshold),
          compared |-> <<>>, ratios |-> <<>>, window |-> Len(query),
          hit |-> FALSE, raised |-> TRUE]
    ELSE fuzzy_decide(text, Len(query), effective_threshold(Len(query), threshold),
             fuzzy_scan(lower(normalize_text_aggressive(query)),
                        lower(normalize_text_aggressive(text)),
                        Len(query), step_size(Len(query)), 0, NoBest))

\* get_pdf_selection_rects.py fuzzy_search_in_page
sel_fuzzy_search_in_page(text, query, threshold) ==
    fuzzy_decide(text, Len(query), threshold,
        sel_fuzzy_scan(lower(sel_normalize_text_aggressive(query)),
                       lower(sel_normalize_text_aggressive(text)),
                       Len(query), sel_step_size(Len(query)), 0, NoBest))

(***************************************************************************)
(* Strategy helpers of find_text_in_pdf.py                                 *)
(***************************************************************************)
\* str.strip() on a plain string
StripS(s) == Chars(Strip(Tag(s)))

\* a or b: the first list if it holds anything, the second otherwise
OrElse(first, second) == IF first # <<>> THEN first ELSE second

\* page.search_for(needle), then page.search_for(normalize_whitespace(needle))
\* if not text_instances
search_then_normalized(text, needle) ==
    OrElse(search_for(text, needle), search_for(text, normalize_whitespace(needle)))

\* case_insensitive_search, the offsets found being start_idx and norm_idx
case_insensitive_at(text, query, start_idx, norm_idx) ==
    IF start_idx = -1
    THEN (IF norm_idx = -1
          THEN [rects |-> <<>>, start_idx |-> -1, norm_idx |-> -1, literal |-> <<>>]
          ELSE [rects |-> search_for(text, normalize_whitespace(query)),
                start_idx |-> -1, norm_idx |-> norm_idx,
                literal |-> normalize_whitespace(query)])
    ELSE [rects |-> search_for(text, Slice(text, start_idx, start_idx + Len(query))),
          start_idx |-> start_idx, norm_idx |-> -1,
          literal |-> Slice(text, start_idx, start_idx + Len(query))]

\* case_insensitive_search
case_insensitive_search(text, query) ==
    case_insensitive_at(text, query, Find(lower(text), lower(query)),
        Find(lower(normalize_whitespace(text)), lower(normalize_whitespace(query))))

\* text[:match.end()].strip() for the match of [.!?](?:\s|$) at the 1-based
\* index i; i = -1 stands for no match (None)
sentence_upto(text, i) ==
    IF i = -1 THEN [found |-> FALSE, text |-> <<>>]
    ELSE [found |-> TRUE,
          text |-> StripS(Slice(text, 0, IF i = Len(text) THEN i ELSE i + 1))]

\* extract_first_sentence: [found, text]; found = FALSE stands for None
extract_first_sentence(text) ==
    sentence_upto(text,
        FirstOffset({i \in 1..Len(text) :
                       text[i] \in SentenceEnd
                       /\ (i = Len(text) \/ text[i + 1] \in Whitespace)}))

\* the lines among `lines` that lie between the two rectangles
lines_between(lines, start_rect, end_rect) ==
    Keep(lines, [k \in 1..Len(lines) |->
                    RLe(start_rect.y0, lines[k].y0) /\ RLe(lines[k].y1, end_rect.y1)])

\* get_text_blocks_between_rects: the rectangles, <<>> standing for None too
get_text_blocks_between_rects(text, start_rect, end_rect) ==
    lines_between(get_text_lines(text), start_rect, end_rect)

\* an anchor method that answers with an empty list where the source
\* answers None
AnchorEmpty(why) == [none |-> FALSE, rects |-> <<>>, via |-> why]

\* return None
AnchorNone(why) == [none |-> TRUE, rects |-> <<>>, via |-> why]

\* return get_text_blocks_between_rects(page, start_rects[0], end_rects[0])
anchors_fallback(between) ==
    [none |-> between = <<>>, rects |-> between, via |-> "lines"]

\* what find_text_by_start_and_end_anchors returns once the full text is
\* located at text_start_idx and searched for
anchors_covered(text, start_rects, end_rects, full_rects) ==
    IF full_rects # <<>>
    THEN [none |-> FALSE, rects |-> full_rects, via |-> "full"]
    ELSE anchors_fallback(get_text_blocks_between_rects(text, start_rects[1],
                                                        end_rects[1]))

\* find_text_by_start_and_end_anchors from the anchors on
anchors_located(text, full_text, start_rects, end_rects, text_start_idx) ==
    IF start_rects = <<>> THEN AnchorNone("start")
    ELSE IF end_rects = <<>> THEN AnchorNone("end")
    ELSE IF text_start_idx = -1 THEN AnchorNone("full")
    ELSE anchors_covered(text, start_rects, end_rects,
             search_for(text, Slice(text, text_start_idx,
                                    text_start_idx + Len(full_text))))

\* text_start_idx: the normalized, lower-cased find, then the plain find
anchor_full_index(norm_idx, plain_idx) == IF norm_idx # -1 THEN norm_idx ELSE plain_idx

\* find_text_by_start_and_end_anchors: [none, rects, via], none = TRUE
\* standing for None; end_text is [given, text], given = FALSE standing for
\* the default None; `raises` says that a page primitive raises inside it
find_text_by_start_and_end_anchors(text, full_text, start_text, full_length, end_text, raises) ==
    IF raises THEN AnchorNone("exception")
    ELSE IF ~end_text.given /\ Len(full_text) <= 50 THEN AnchorNone("short")
    ELSE anchors_located(text, full_text,
             search_then_normalized(text, start_text),
             search_then_normalized(text,
                 IF end_text.given THEN end_text.text
                 ELSE Slice(full_text, Len(full_text) - 50, Len(full_text))),
             anchor_full_index(
                 Find(lower(normalize_whitespace(text)),
                      lower(normalize_whitespace(full_text))),
                 Find(text, full_text)))

(***************************************************************************)
(* Rectangle Synthesizer: expand_rectangles_for_long_text                  *)
(***************************************************************************)
\* int(full_length / chars_per_line) + 1
estimated_lines(full_length, chars_per_line) ==
    RInt(RDiv(Rat(full_length), chars_per_line)) + 1

\* char_width = rect.width / matched_length
char_width(rect, matched_length) == RDiv(RectWidth(rect), Rat(matched_length))

\* chars_per_line = rect.width / char_width
chars_per_line(rect, matched_length) ==
    RDiv(RectWidth(rect), char_width(rect, matched_length))

\* min(rect.x1 + additional_width, page_rect.x1), the right edge of new_rect
extended_x1(rect, matched_length, full_length, pw) ==
    RMin(RAdd(rect.x1, RMul(char_width(rect, matched_length),
                            Rat(full_length - matched_length))), pw)

\* if new_rect.x1 >= page_rect.x1 * 0.95
near_right_edge(rect, matched_length, full_length, pw) ==
    RLe(RMul(pw, Frac(95, 100)), extended_x1(rect, matched_length, full_length, pw))

\* an expansion that widens the rectangle whatever the page's width
expand_unclamped(rect, matched_length, full_length, pw, ph) ==
    <<Rect(rect.x0, rect.y0,
           RAdd(rect.x1, RMul(char_width(rect, matched_length),
                              Rat(full_length - matched_length))),
           rect.y1)>>

\* an expansion that keeps the estimated lines whatever the page's height
expand_keeping_lines(rect, matched_length, full_length, pw, ph) ==
    LET lines == estimated_lines(full_length, chars_per_line(rect, matched_length))
        Shift(k) == RMul(RMul(RectHeight(rect), Frac(12, 10)), Rat(k))
    IN  IF near_right_edge(rect, matched_length, full_length, pw)
        THEN [k \in 1..lines |->
                 Rect(rect.x0, RAdd(rect.y0, Shift(k - 1)),
                      RMin(RAdd(rect.x0, RectWidth(rect)), pw),
                      RAdd(rect.y1, Shift(k - 1)))]
        ELSE <<Rect(rect.x0, rect.y0,
                    extended_x1(rect, matched_length, full_length, pw), rect.y1)>>

\* the rectangles one matched rectangle expands to
expand_one(rect, matched_length, full_length, pw, ph) ==
    LET new_rect == Rect(rect.x0, rect.y0,
                         extended_x1(rect, matched_length, full_length, pw), rect.y1)
        lines == estimated_lines(full_length, chars_per_line(rect, matched_length))
        line_height == RectHeight(rect)
        Shift(k) == RMul(RMul(line_height, Frac(12, 10)), Rat(k))
        line_rect(k) == Rect(rect.x0, RAdd(rect.y0, Shift(k)),
                             RMin(RAdd(rect.x0,
                                       RMul(chars_per_line(rect, matched_length),
                                            char_width(rect, matched_length))), pw),
                             RAdd(rect.y1, Shift(k)))
        all == [k \in 1..lines |-> IF k = 1 THEN rect ELSE line_rect(k - 1)]
        fits == [k \in 1..lines |-> k = 1 \/ RLe(all[k].y1, ph)]
    IN  IF near_right_edge(rect, matched_length, full_length, pw)
        THEN Keep(all, fits)
        ELSE <<new_rect>>

RECURSIVE expand_from(_, _, _, _, _, _)
expand_from(text_instances, k, matched_length, full_length, pw, ph) ==
    IF k > Len(text_instances) THEN <<>>
    ELSE expand_one(text_instances[k], matched_length, full_length, pw, ph)
         \o expand_from(text_instances, k + 1, matched_length, full_length, pw, ph)

\* an expansion that returns no rectangle
expand_to_nothing(text_instances, matched_length, full_length, pw, ph) == <<>>

\* expand_rectangles_for_long_text, page.rect being (0, 0, pw, ph)
expand_rectangles_for_long_text(text_instances, matched_length, full_length, pw, ph) ==
    expand_from(text_instances, 1, matched_length, full_length, pw, ph)

(***************************************************************************)
(* format_results                                                          *)
(***************************************************************************)
\* hasattr(item, 'rect')
IsQuad(item) == "ul" \in DOMAIN item

\* the dict format_results makes of one Rect or Quad
format_item(item) ==
    LET rect == IF IsQuad(item) THEN QuadRect(item) ELSE item
    IN  [x |-> rect.x0, y |-> rect.y0,
         width |-> RSub(rect.x1, rect.x0), height |-> RSub(rect.y1, rect.y0)]

\* the list format_results returns
format_results(text_instances) ==
    [i \in 1..Len(text_instances) |-> format_item(text_instances[i])]

(***************************************************************************)
(* The strategy cascade: state shared by the two entry points              *)
(***************************************************************************)
Strategies == 1..8

\* nothing attempted yet
NoYield == [s \in Strategies |-> <<>>]

IdleFuzzy == [rects |-> <<>>, ratio |-> Rat(0), position |-> -1, threshold |-> Rat(0),
              compared |-> <<>>, ratios |-> <<>>, window |-> 0, hit |-> FALSE,
              raised |-> FALSE]

IdleTrace == [found_at |-> -2, start_anchor |-> FALSE, fuzzy |-> IdleFuzzy,
              literal |-> <<>>, sentence |-> <<>>, matched |-> <<>>,
              anchors6 |-> [none |-> TRUE, via |-> "idle"],
              anchors7 |-> [none |-> TRUE, via |-> "idle"], error |-> "none"]

IdleCall == [op |-> "idle"]

\* doc[page_num - 1] of a document of page_count pages: PyMuPDF takes every
\* index below the page count, counting negative ones from the end
page_loads(num, page_count) == num - 1 < page_count /\ num - 1 >= -page_count

\* a return of the formatted rectangles that leaves the document open
ReturnLeavingOpen(instances) ==
    /\ result' = format_results(instances)
    /\ outcome' = "returned"
    /\ pc' = "done"
    /\ UNCHANGED doc

\* return format_results(instances, doc) / results = format_results(..);
\* doc.close(); return results
Return(instances) ==
    /\ result' = format_results(instances)
    /\ outcome' = "returned"
    /\ pc' = "done"
    /\ doc' = [state |-> "closed", closes |-> doc.closes + 1]

\* a handler that lets the exception through
propagate_exception ==
    /\ result' = <<>>
    /\ outcome' = "raised"
    /\ pc' = "done"

\* except Exception as e: ...; return []
handle_exception ==
    /\ result' = <<>>
    /\ outcome' = "returned"
    /\ pc' = "done"

\* the exception handler, entered from strategy s
Except(s) ==
    /\ handle_exception
    /\ trace' = [trace EXCEPT !.error = s]
    /\ UNCHANGED <<yield, doc>>

\* a cascade that goes on at `next` whatever the strategy found
ConcludeAndGoOn(s, instances, next) ==
    /\ yield' = [yield EXCEPT ![s] = instances]
    /\ pc' = next
    /\ UNCHANGED <<result, outcome, doc>>

\* if text_instances: return format_results(text_instances, doc); otherwise
\* the cascade goes on at `next`
Conclude(s, instances, next) ==
    /\ yield' = [yield EXCEPT ![s] = instances]
    /\ IF instances # <<>>
       THEN Return(instances)
       ELSE pc' = next /\ UNCHANGED <<result, outcome, doc>>

Input == <<fn, page_text, page_width, page_height, search_text, page_num, fault, call>>

(***************************************************************************)
(* find_text_in_pdf                                                        *)
(***************************************************************************)
\* doc = fitz.open(pdf_path); page = doc[page_num - 1]
Open ==
    /\ fn = "find_text_in_pdf" /\ pc = "open"
    /\ IF fault = "open"
       THEN handle_exception /\ trace' = [trace EXCEPT !.error = "open"] /\ UNCHANGED doc
       ELSE IF ~page_loads(page_num, 1)
       THEN /\ handle_exception
            /\ trace' = [trace EXCEPT !.error = "page"]
            /\ doc' = [doc EXCEPT !.state = "open"]
       ELSE /\ pc' = "s1"
            /\ doc' = [doc EXCEPT !.state = "open"]
            /\ UNCHANGED <<result, outcome, trace>>
    /\ UNCHANGED <<attempted, yield>>
    /\ UNCHANGED Input

\* a cascade whose first strategy searches for nothing
SkipExact ==
    /\ fn = "find_text_in_pdf" /\ pc = "s1"
    /\ attempted' = Append(attempted, 1)
    /\ pc' = "s2"
    /\ UNCHANGED <<yield, trace, result, outcome, doc>>
    /\ UNCHANGED Input

\* Strategy 1: exact match
Strategy1 ==
    /\ fn = "find_text_in_pdf" /\ pc = "s1"
    /\ attempted' = Append(attempted, 1)
    /\ IF fault = "s1" THEN Except("s1")
       ELSE Conclude(1, search_for_quads(page_text, search_text), "s2")
            /\ UNCHANGED trace
    /\ UNCHANGED Input

\* Strategy 2: normalized whitespace
Strategy2 ==
    /\ fn = "find_text_in_pdf" /\ pc = "s2"
    /\ attempted' = Append(attempted, 2)
    /\ IF fault = "s2" THEN Except("s2")
       ELSE Conclude(2, search_for_quads(page_text, normalize_whitespace(search_text)),
                     "s3")
            /\ UNCHANGED trace
    /\ UNCHANGED Input

\* ' '.join(search_text.split()[:3])
first_words(text) ==
    LET words == Split(text) IN Join(SubSeq(words, 1, Min(3, Len(words))))

\* what Strategy 2.5 finds: the offset of the normalized query in the
\* normalized page and, if there is one, whether the first words are on the page
aggressive_probe(tr, text, query, found_at, first) ==
    [tr EXCEPT !.found_at = found_at,
               !.start_anchor =
                   /\ found_at >= 0
                   /\ OrElse(search_for(text, first),
                             search_for(text, normalize_text_aggressive(first))) # <<>>]

\* Strategy 2.5: aggressive normalization.  It looks for the normalized query
\* in the normalized page and for the first words on the page, and hands no
\* rectangles on: the call goes on whatever it found.
Strategy3 ==
    /\ fn = "find_text_in_pdf" /\ pc = "s3"
    /\ attempted' = Append(attempted, 3)
    /\ IF fault = "s3" THEN Except("s3")
       ELSE /\ trace' = aggressive_probe(trace, page_text, search_text,
                          Find(lower(normalize_text_aggressive(page_text)),
                               lower(normalize_text_aggressive(search_text))),
                          first_words(search_text))
            /\ pc' = "s4"
            /\ UNCHANGED <<yield, result, outcome, doc>>
    /\ UNCHANGED Input

\* Strategy 2.8: fuzzy similarity matching
Strategy4 ==
    /\ fn = "find_text_in_pdf" /\ pc = "s4"
    /\ attempted' = Append(attempted, 4)
    /\ \E f \in {fuzzy_search_in_page(page_text, search_text, DefaultThreshold,
                                      fault = "s4")} :
         /\ trace' = [trace EXCEPT !.fuzzy = f]
         /\ Conclude(4, f.rects, "s5")
    /\ UNCHANGED Input

\* Strategy 3: case-insensitive search
Strategy5 ==
    /\ fn = "find_text_in_pdf" /\ pc = "s5"
    /\ attempted' = Append(attempted, 5)
    /\ IF fault = "s5" THEN Except("s5")
       ELSE \E c \in {case_insensitive_search(page_text, search_text)} :
              /\ trace' = [trace EXCEPT !.literal = c.literal]
              /\ Conclude(5, c.rects, "s6")
    /\ UNCHANGED Input

\* Strategy 4: first sentence only.  Once the first sentence is found on the
\* page the call returns: what the anchor method yields, or the expansion of
\* the match if the anchor method yields nothing.
Strategy6 ==
    /\ fn = "find_text_in_pdf" /\ pc = "s6"
    /\ IF Len(search_text) <= 100
       THEN pc' = "s7" /\ UNCHANGED <<attempted, yield, trace, result, outcome, doc>>
       ELSE
         /\ attempted' = Append(attempted, 6)
         /\ \E fs \in {extract_first_sentence(search_text)} :
              IF ~(fs.found /\ Len(fs.text) > 20)
              THEN pc' = "s7" /\ UNCHANGED <<yield, trace, result, outcome, doc>>
              ELSE IF fault = "s6" THEN Except("s6")
              ELSE
                \E text_instances \in {search_then_normalized(page_text, fs.text)} :
                  IF text_instances = <<>>
                  THEN /\ pc' = "s7"
                       /\ trace' = [trace EXCEPT !.sentence = fs.text]
                       /\ UNCHANGED <<yield, result, outcome, doc>>
                  ELSE
                    \E a \in {find_text_by_start_and_end_anchors(page_text,
                                  search_text, fs.text, Len(search_text),
                                  [given |-> FALSE], fault = "s6anchor")} :
                      \E expanded_instances \in
                           {IF a.rects # <<>> THEN a.rects
                            ELSE expand_rectangles_for_long_text(text_instances,
                                     Len(fs.text), Len(search_text),
                                     Rat(page_width), Rat(page_height))} :
                        /\ trace' = [trace EXCEPT !.sentence = fs.text,
                                         !.matched = text_instances,
                                         !.anchors6 = [none |-> a.none, via |-> a.via]]
                        /\ yield' = [yield EXCEPT ![6] = expanded_instances]
                        /\ Return(expanded_instances)
    /\ UNCHANGED Input

\* Strategy 5: start + end anchors
Strategy7 ==
    /\ fn = "find_text_in_pdf" /\ pc = "s7"
    /\ IF Len(search_text) <= 100
       THEN pc' = "s8" /\ UNCHANGED <<attempted, yield, trace, result, outcome, doc>>
       ELSE
         /\ attempted' = Append(attempted, 7)
         /\ \E a \in {find_text_by_start_and_end_anchors(page_text, search_text,
                          Slice(search_text, 0, 50), Len(search_text),
                          [given |-> TRUE,
                           text |-> Slice(search_text, Len(search_text) - 50,
                                          Len(search_text))],
                          fault = "s7")} :
              /\ trace' = [trace EXCEPT !.anchors7 = [none |-> a.none, via |-> a.via]]
              /\ Conclude(7, a.rects, "s8")
    /\ UNCHANGED Input

\* Strategy 6: first 100 characters, expanded
Strategy8 ==
    /\ fn = "find_text_in_pdf" /\ pc = "s8"
    /\ IF Len(search_text) <= 100
       THEN pc' = "nomatch"
            /\ UNCHANGED <<attempted, yield, trace, result, outcome, doc>>
       ELSE
         /\ attempted' = Append(attempted, 8)
         /\ IF fault = "s8" THEN Except("s8")
            ELSE
              \E text_instances \in {search_then_normalized(page_text,
                                         Slice(search_text, 0, 100))} :
                IF text_instances = <<>>
                THEN pc' = "nomatch" /\ UNCHANGED <<yield, trace, result, outcome, doc>>
                ELSE
                  \E expanded_instances \in
                       {expand_rectangles_for_long_text(text_instances, 100,
                            Len(search_text), Rat(page_width), Rat(page_height))} :
                    /\ trace' = [trace EXCEPT !.matched = text_instances]
                    /\ yield' = [yield EXCEPT ![8] = expanded_instances]
                    /\ Return(expanded_instances)
    /\ UNCHANGED Input

\* No matches found with any strategy: doc.close(); return []
NoMatch ==
    /\ fn = "find_text_in_pdf" /\ pc = "nomatch"
    /\ result' = <<>>
    /\ outcome' = "returned"
    /\ pc' = "done"
    /\ doc' = [state |-> "closed", closes |-> doc.closes + 1]
    /\ UNCHANGED <<attempted, yield, trace>>
    /\ UNCHANGED Input

(***************************************************************************)
(* get_selection_rectangles                                                *)
(***************************************************************************)
\* doc = fitz.open(pdf_path); page = doc[page_num - 1]
SelOpen ==
    /\ fn = "get_selection_rectangles" /\ pc = "open"
    /\ IF fault = "open"
       THEN handle_exception /\ trace' = [trace EXCEPT !.error = "open"] /\ UNCHANGED doc
       ELSE IF ~page_loads(page_num, 1)
       THEN /\ handle_exception
            /\ trace' = [trace EXCEPT !.error = "page"]
            /\ doc' = [doc EXCEPT !.state = "open"]
       ELSE /\ pc' = "s1"
            /\ doc' = [doc EXCEPT !.state = "open"]
            /\ UNCHANGED <<result, outcome, trace>>
    /\ UNCHANGED <<attempted, yield>>
    /\ UNCHANGED Input

\* Strategy 1: exact search with quads=True
SelStrategy1 ==
    /\ fn = "get_selection_rectangles" /\ pc = "s1"
    /\ attempted' = Append(attempted, 1)
    /\ IF fault = "s1" THEN Except("s1")
       ELSE Conclude(1, search_for_quads(page_text, search_text), "s2")
            /\ UNCHANGED trace
    /\ UNCHANGED Input

\* Strategy 2: normalized whitespace
SelStrategy2 ==
    /\ fn = "get_selection_rectangles" /\ pc = "s2"
    /\ attempted' = Append(attempted, 2)
    /\ IF fault = "s2" THEN Except("s2")
       ELSE Conclude(2, search_for_quads(page_text,
                                         sel_normalize_whitespace(search_text)), "s3")
            /\ UNCHANGED trace
    /\ UNCHANGED Input

\* Strategy 3: aggressive normalization (of the query alone)
SelStrategy3 ==
    /\ fn = "get_selection_rectangles" /\ pc = "s3"
    /\ attempted' = Append(attempted, 3)
    /\ IF fault = "s3" THEN Except("s3")
       ELSE Conclude(3, search_for_quads(page_text,
                                         sel_normalize_text_aggressive(search_text)),
                     "s4")
            /\ UNCHANGED trace
    /\ UNCHANGED Input

\* Strategy 4: fuzzy matching with word-level precision
SelStrategy4 ==
    /\ fn = "get_selection_rectangles" /\ pc = "s4"
    /\ attempted' = Append(attempted, 4)
    /\ IF fault = "s4" THEN Except("s4")
       ELSE \E f \in {sel_fuzzy_search_in_page(page_text, search_text,
                                                DefaultThreshold)} :
              /\ trace' = [trace EXCEPT !.fuzzy = f]
              /\ Conclude(4, f.rects, "nomatch")
    /\ UNCHANGED Input

\* No match found: doc.close(); return []
SelNoMatch ==
    /\ fn = "get_selection_rectangles" /\ pc = "nomatch"
    /\ result' = <<>>
    /\ outcome' = "returned"
    /\ pc' = "done"
    /\ doc' = [state |-> "closed", closes |-> doc.closes + 1]
    /\ UNCHANGED <<attempted, yield, trace>>
    /\ UNCHANGED Input

(***************************************************************************)
(* Calls.  A scenario is a page, a query and the faults and page numbers   *)
(* the call is tried with.                                                 *)
(***************************************************************************)
\* the length of the longest page text of the exhaustive scenarios
MaxPageLen == 4

\* the length of the longest query of the exhaustive scenarios
MaxQueryLen == 2

Strings(alphabet, n) == UNION {[1..k -> alphabet] : k \in 0..n}

Rep(c, n) == [i \in 1..n |-> c]

EntryPoints == {"find_text_in_pdf", "get_selection_rectangles"}

Scenario(page, query, pws, phs, faults, nums) ==
    [page |-> page, query |-> query, pws |-> pws, phs |-> phs,
     faults |-> faults, nums |-> nums]

\* every short page and query over a letter, the space and the line break
ShortScenarios ==
    {Scenario(p, q, {8}, {8}, {"none"}, {1}) :
        p \in Strings({"a", " ", "\n"}, MaxPageLen),
        q \in Strings({"a", " ", "\n"}, MaxQueryLen)}

ShortFaults == {"none", "open", "s1", "s2", "s3", "s4", "s5"}

\* the pages and queries of the named cases, one-page documents asked for
\* pages 0, 1 and 2
CuratedScenarios ==
    {\* whitespace-only divergence of the page
     Scenario(<<"H", "e", "l", "l", "o", ",", " ", " ", " ", "w", "o", "r",
              "l", "d", "!", "\n", "T", "h", "i", "s", " ", "i", "s", " ",
              "a", " ", " ", "t", "e", "s", "t", ".">>,
              <<"H", "e", "l", "l", "o", ",", " ", "w", "o", "r", "l", "d",
              "!", " ", "T", "h", "i", "s", " ", "i", "s", " ", "a", " ", "t",
              "e", "s", "t", ".">>,
              {40}, {4}, ShortFaults, {0, 1, 2}),
     \* whitespace-only divergence of the query
     Scenario(<<"H", "e", "l", "l", "o", ",", " ", "w", "o", "r", "l", "d",
              "!">>,
              <<"H", "e", "l", "l", "o", ",", "\n", " ", "w", "o", "r", "l",
              "d", "!">>,
              {40}, {4}, ShortFaults, {0, 1, 2}),
     \* curly quotes on the page, straight quotes in the query
     Scenario(<<"o", "n", " ", "u201C", "f", "r", "e", "e", " ", "w", "i",
              "l", "l", "u201D", " ", "n", "o", "w">>,
              <<"\"", "f", "r", "e", "e", " ", "w", "i", "l", "l", "\"">>,
              {40}, {4}, ShortFaults, {0, 1, 2}),
     \* hyphenated line breaks before a quoted passage
     Scenario(<<"x", "-", "\n", "y", "-", "\n", "z", "-", "\n", "q", " ",
              "u201C", "c", "d", "u201D", " ", "w", "w">>,
              <<"\"", "c", "d", "\"", " ", "w", "w">>,
              {40}, {4}, ShortFaults, {0, 1, 2}),
     \* capitalisation, at an offset no window starts at
     Scenario(<<"x", "x", " ", "H", "e", "l", "l", "o">>,
              <<"h", "e", "l", "l", "o">>,
              {40}, {4}, ShortFaults, {0, 1, 2}),
     \* capitalisation
     Scenario(<<"H", "e", "l", "l", "o", " ", "W", "o", "r", "l", "d">>,
              <<"h", "e", "l", "l", "o", " ", "w", "o", "r", "l", "d">>,
              {40}, {4}, ShortFaults, {0, 1, 2}),
     \* a hyphenated line break
     Scenario(<<"s", "u", "g", "-", "\n", "g", "e", "s", "t", "s", " ", "t",
              "h", "a", "t">>,
              <<"s", "u", "g", "g", "e", "s", "t", "s", " ", "t", "h", "a",
              "t">>,
              {40}, {4}, ShortFaults, {0, 1, 2}),
     \* the query is a substring of the page
     Scenario(<<"o", "n", "e", " ", "t", "w", "o", "\n", "t", "h", "r", "e",
              "e">>,
              <<"t", "w", "o", "\n", "t", "h", "r", "e", "e">>,
              {40}, {4}, ShortFaults, {0, 1, 2}),
     \* an empty query
     Scenario(<<"a", " ", "b">>,
              <<>>,
              {40}, {4}, ShortFaults, {0, 1, 2}),
     \* nothing alike
     Scenario(<<"a", "l", "p", "h", "a", " ", "b", "e", "t", "a">>,
              <<"z", "z", "z">>,
              {40}, {4}, ShortFaults, {0, 1, 2}),
     \* an en dash in the query, a hyphen on the page
     Scenario(<<"p", "r", "e", "-", "w", "a", "r", " ", "e", "r", "a">>,
              <<"p", "r", "e", "u2013", "w", "a", "r", " ", "e", "r", "a">>,
              {40}, {4}, ShortFaults, {0, 1, 2}),
     \* curly quotes on the page, straight quotes and a doubled space in the
     \* query
     Scenario(<<"s", "a", "y", " ", "u201C", "h", "i", "u201D", " ", "n", "o",
              "w">>,
              <<"s", "a", "y", " ", " ", "\"", "h", "i", "\"", " ", "n", "o",
              "w">>,
              {40}, {4}, ShortFaults, {0, 1, 2}),
     \* capitalisation, on a page with room for a second window
     Scenario(<<"H", "e", "l", "l", "o", " ", "W", "o", "r", "l", "d", " ",
              "a", "g", "a", "i", "n">>,
              <<"h", "e", "l", "l", "o", " ", "w", "o", "r", "l", "d">>,
              {40}, {4}, ShortFaults, {0, 1, 2}),
     \* three windows that resemble the query alike
     Scenario(<<"a", "b", "c", "d", "e", "f", "g", "h", "i", "k", " ",
              "a", "b", "c", "d", "e", "f", "g", "h", "i", "k", " ",
              "a", "b", "c", "d", "e", "f", "g", "h", "i", "k">>,
              <<"a", "b", "c", "d", "e", "f", "g", "h", "i", "k", " ",
              "a", "b", "c", "d", "e", "f", "g", "h", "i", "x", "k">>,
              {40}, {4}, ShortFaults, {0, 1, 2}),
     \* capitalisation, after a character that lowers to two
     Scenario(<<"u0130", " ", "A", "b", "c">>,
              <<"a", "b">>,
              {40}, {4}, ShortFaults, {0, 1, 2}),
     \* a query more than a step longer than the page
     Scenario(<<"a", "b">>,
              <<"a", "b", "c", "d", "e", "f", "g", "h">>,
              {40}, {4}, {"none"}, {1})}

\* queries of more than 100 characters
LongScenarios ==
    {\* both 50-character anchors on the page, the middle different
     Scenario(Rep("a", 50) \o Rep("y", 20) \o Rep("b", 50),
              Rep("a", 50) \o Rep("x", 20) \o Rep("b", 50),
              {130}, {2}, {"none", "s7"}, {1}),
     \* the first 100 characters on the page, the rest different
     Scenario(Rep("a", 100) \o Rep("y", 30),
              Rep("a", 100) \o Rep("x", 30),
              {130, 200}, {1, 4}, {"none", "s8"}, {1}),
     \* the first sentence on the page, the rest different
     Scenario(Rep("a", 24) \o <<".", " ">> \o Rep("y", 80),
              Rep("a", 24) \o <<".", " ">> \o Rep("x", 80),
              {110, 200}, {1, 8}, {"none", "s6", "s6anchor"}, {1}),
     \* the page differs from the query by a doubled space after the sentence
     Scenario(Rep("a", 24) \o <<".", " ", " ">> \o Rep("b", 80),
              Rep("a", 24) \o <<".", " ">> \o Rep("b", 80),
              {120}, {2}, {"none", "s4"}, {1}),
     \* the page differs from the query by a doubled space, no sentence
     Scenario(Rep("a", 60) \o <<" ", " ">> \o Rep("b", 60),
              Rep("a", 60) \o <<" ">> \o Rep("b", 60),
              {130}, {2}, {"none", "s4"}, {1}),
     \* the first sentence of the query is not on the page
     Scenario(Rep("a", 24) \o <<".", " ">> \o Rep("y", 80),
              Rep("c", 24) \o <<".", " ">> \o Rep("y", 80),
              {110}, {2}, {"none"}, {1}),
     \* a first sentence of 20 characters on the page, the rest different
     Scenario(Rep("a", 19) \o <<".", " ">> \o Rep("y", 85),
              Rep("a", 19) \o <<".", " ">> \o Rep("x", 85),
              {110}, {2}, {"none"}, {1})}

Scenarios == ShortScenarios \cup CuratedScenarios \cup LongScenarios

Init ==
    \E sc \in Scenarios :
      \E e \in EntryPoints, f \in sc.faults, num \in sc.nums,
         pw \in sc.pws, ph \in sc.phs :
        /\ fn = e
        /\ page_text = sc.page
        /\ search_text = sc.query
        /\ page_width = pw
        /\ page_height = ph
        /\ page_num = num
        /\ fault = f
        /\ pc = "open"
        /\ attempted = <<>>
        /\ yield = NoYield
        /\ trace = IdleTrace
        /\ result = <<>>
        /\ outcome = "running"
        /\ doc = [state |-> "unopened", closes |-> 0]
        /\ call = IdleCall

Next ==
    \/ Open
    \/ Strategy1
    \/ Strategy2
    \/ Strategy3
    \/ Strategy4
    \/ Strategy5
    \/ Strategy6
    \/ Strategy7
    \/ Strategy8
    \/ NoMatch
    \/ SelOpen
    \/ SelStrategy1
    \/ SelStrategy2
    \/ SelStrategy3
    \/ SelStrategy4
    \/ SelNoMatch

Spec == Init /\ [][Next]_vars

\* The order in which a call goes through its steps, from opening the document
\* to its return
StrategyOrder ==
    [open |-> 0, s1 |-> 1, s2 |-> 2, s3 |-> 3, s4 |-> 4, s5 |-> 5, s6 |-> 6,
     s7 |-> 7, s8 |-> 8, nomatch |-> 9, done |-> 10]

\* The two scripts called one after the other for the same page and query:
\* get_selection_rectangles first, with a document that opens and no fault.
InitBoth ==
    /\ Init
    /\ fn = "get_selection_rectangles" /\ fault = "none" /\ page_num = 1

\* find_text_in_pdf(pdf_path, page_num, search_text) called with the arguments
\* get_selection_rectangles has returned for; what that call returned is
\* kept in `call`
ThenFindTextInPdf ==
    /\ fn = "get_selection_rectangles" /\ pc = "done" /\ call = IdleCall
    /\ call' = [op |-> "get_selection_rectangles", result |-> result,
                attempted |-> attempted]
    /\ fn' = "find_text_in_pdf"
    /\ pc' = "open"
    /\ attempted' = <<>>
    /\ yield' = NoYield
    /\ trace' = IdleTrace
    /\ result' = <<>>
    /\ outcome' = "running"
    /\ doc' = [state |-> "unopened", closes |-> 0]
    /\ UNCHANGED <<page_text, page_width, page_height, search_text, page_num, fault>>

NextBoth == Next \/ ThenFindTextInPdf

SpecBoth == InitBoth /\ [][NextBoth]_vars


(***************************************************************************)
(* Direct calls of the normalizers and of the word index.  A call is held  *)
(* in `call`; the cascade's variables stay idle.                           *)
(***************************************************************************)
IdleCascade ==
    /\ fn = "none" /\ page_text = <<>> /\ search_text = <<>>
    /\ page_width = 1 /\ page_height = 1 /\ page_num = 1 /\ fault = "none"
    /\ pc = "done" /\ attempted = <<>> /\ yield = NoYield /\ trace = IdleTrace
    /\ result = <<>> /\ outcome = "running"
    /\ doc = [state |-> "unopened", closes |-> 0]

Cascade == <<fn, page_text, page_width, page_height, search_text, page_num, fault,
             pc, attempted, yield, trace, result, outcome, doc>>

\* the length of the longest string handed to a normalizer
MaxTextLen == 4

\* a letter, two kinds of whitespace, hyphen and en dash, the soft hyphen, a
\* straight and a curly quote, two punctuation marks
NormAlphabet == {"a", " ", "\n", "-", "u2013", "u00AD", "\"", "u201C", ",", "."}

\* the string the next application of a normalizer works on: the input, then
\* the function's own output
Latest == IF call.outs = <<>> THEN call.text ELSE call.outs[Len(call.outs)]

InitNorm ==
    /\ IdleCascade
    /\ \E f \in {"normalize_whitespace", "normalize_text_aggressive",
                  "sel_normalize_text_aggressive"},
          t \in Strings(NormAlphabet, MaxTextLen) :
          call = [op |-> f, text |-> t, outs |-> <<>>]

\* normalize_whitespace(text), then normalize_whitespace of its output
NormalizeWhitespace ==
    /\ call.op = "normalize_whitespace" /\ Len(call.outs) < 2
    /\ call' = [call EXCEPT !.outs = Append(@, normalize_whitespace(Latest))]
    /\ UNCHANGED Cascade

\* normalize_text_aggressive(text), then normalize_text_aggressive of its output
NormalizeAggressive ==
    /\ call.op = "normalize_text_aggressive" /\ Len(call.outs) < 2
    /\ call' = [call EXCEPT !.outs = Append(@, normalize_text_aggressive(Latest))]
    /\ UNCHANGED Cascade

\* normalize_text_aggressive(text) of get_pdf_selection_rects.py
SelNormalizeAggressive ==
    /\ call.op = "sel_normalize_text_aggressive" /\ call.outs = <<>>
    /\ call' = [call EXCEPT !.outs = <<sel_normalize_text_aggressive(call.text)>>]
    /\ UNCHANGED Cascade

NextNorm ==
    \/ NormalizeWhitespace
    \/ NormalizeAggressive
    \/ SelNormalizeAggressive

SpecNorm == InitNorm /\ [][NextNorm]_vars

\* the length of the longest page text the word lists are taken from
MaxWordsTextLen == 5

\* the largest start and end of a range
MaxPos == 6

InitWords ==
    /\ IdleCascade
    /\ \E t \in Strings({"a", " "}, MaxWordsTextLen), s \in 0..MaxPos, e \in 0..MaxPos :
          call = [op |-> "get_words_in_range", words |-> get_text_words(t),
                  start_pos |-> s, end_pos |-> e, returned |-> FALSE,
                  offsets |-> <<>>, ret |-> <<>>]

\* get_words_in_range(words, start_pos, end_pos), with the offsets its walk
\* assigns to the words
GetWordsInRange ==
    /\ call.op = "get_words_in_range" /\ ~call.returned
    /\ call' = [call EXCEPT !.returned = TRUE,
                            !.offsets = word_offsets(call.words),
                            !.ret = get_words_in_range(call.words, call.start_pos,
                                                       call.end_pos)]
    /\ UNCHANGED Cascade

NextWords == GetWordsInRange

SpecWords == InitWords /\ [][NextWords]_vars

\* the largest side of a matched rectangle
MaxRectSide == 2

\* the largest matched_length
MaxMatched == 3

\* the largest full_length
MaxFull == 6

\* the largest width and height of the page
MaxPageSide == 6

\* one matched rectangle on a page that holds it, and the two lengths
InitExpand ==
    /\ IdleCascade
    /\ \E x0 \in 0..1, y0 \in 0..1, w \in 1..MaxRectSide, h \in 1..MaxRectSide,
          m \in 1..MaxMatched :
          \E f \in m..MaxFull, pw \in (x0 + w)..MaxPageSide,
             ph \in (y0 + h)..MaxPageSide :
             call = [op |-> "expand_rectangles_for_long_text",
                     rect |-> Rect(Rat(x0), Rat(y0), Rat(x0 + w), Rat(y0 + h)),
                     matched_length |-> m, full_length |-> f,
                     pw |-> pw, ph |-> ph, returned |-> FALSE,
                     multi_line |-> FALSE, estimated_lines |-> 0, ret |-> <<>>]

\* expand_rectangles_for_long_text([rect], matched_length, full_length, page),
\* with the branch it takes and the number of lines it estimates there
ExpandRectangles ==
    /\ call.op = "expand_rectangles_for_long_text" /\ ~call.returned
    /\ call' = [call EXCEPT
          !.returned = TRUE,
          !.multi_line = near_right_edge(call.rect, call.matched_length,
                                         call.full_length, Rat(call.pw)),
          !.estimated_lines =
              IF near_right_edge(call.rect, call.matched_length,
                                 call.full_length, Rat(call.pw))
              THEN estimated_lines(call.full_length,
                                   chars_per_line(call.rect, call.matched_length))
              ELSE 0,
          !.ret = expand_rectangles_for_long_text(<<call.rect>>,
                      call.matched_length, call.full_length, Rat(call.pw),
                      Rat(call.ph))]
    /\ UNCHANGED Cascade

NextExpand == ExpandRectangles

SpecExpand == InitExpand /\ [][NextExpand]_vars

(***************************************************************************)
(* Properties.  The strategies are numbered as the actions are: 1 exact,   *)
(* 2 whitespace-normalized, 3 aggressive-normalized, 4 fuzzy, and for      *)
(* find_text_in_pdf 5 case-insensitive, 6 first sentence, 7 start + end    *)
(* anchors, 8 first 100 characters.                                        *)
(***************************************************************************)
\* C1: the strategies are attempted in the fixed order 1, 2, 3, ...; no
\* strategy is attempted after one has yielded rectangles, which ends the
\* call; and the rectangles returned are those of that strategy
C1_FirstSuccessWins ==
    /\ attempted = [i \in 1..Len(attempted) |-> i]
    /\ \A i \in 1..(Len(attempted) - 1) : yield[attempted[i]] = <<>>
    /\ \A s \in Strategies :
          yield[s] # <<>> =>
             /\ attempted # <<>> /\ attempted[Len(attempted)] = s
             /\ pc = "done" /\ outcome = "returned"
             /\ result = format_results(yield[s])
    /\ \A s \in Strategies :
          (\A i \in 1..Len(attempted) : attempted[i] # s) => yield[s] = <<>>

\* a call of find_text_in_pdf that the fourth strategy ended, after three
\* strategies that found nothing
C1_Witness ==
    /\ fn = "find_text_in_pdf" /\ pc = "done"
    /\ attempted = <<1, 2, 3, 4>>
    /\ yield[4] # <<>>
    /\ result = format_results(yield[4])

\* C2: no call propagates an error: a call is at a step of its cascade or
\* has ended, it ends only by returning, and a call in which no strategy
\* yielded rectangles returns the empty list
C2_NeverRaises ==
    /\ outcome \in {"running", "returned"}
    /\ (pc = "done") <=> (outcome = "returned")
    /\ fn = "find_text_in_pdf" =>
          pc \in {"open", "s1", "s2", "s3", "s4", "s5", "s6", "s7", "s8",
                  "nomatch", "done"}
    /\ fn = "get_selection_rectangles" =>
          pc \in {"open", "s1", "s2", "s3", "s4", "nomatch", "done"}
    /\ (pc = "done" /\ \A s \in Strategies : yield[s] = <<>>) => result = <<>>

\* a call whose exact-search primitive raised and that returned the empty list
C2_Witness ==
    /\ pc = "done" /\ fault = "s1" /\ trace.error = "s1"
    /\ outcome = "returned" /\ result = <<>>

\* C3: a non-empty query that is an exact substring of the page text gets
\* at least one rectangle, from strategy 1 or strategy 2, when the page
\* loads and no primitive raises
C3_ExactSubstringFound ==
    (/\ pc = "done" /\ fault = "none" /\ trace.error = "none"
     /\ search_text # <<>>
     /\ Find(page_text, search_text) # -1)
    => /\ result # <<>>
       /\ attempted \in {<<1>>, <<1, 2>>}
       /\ result = format_results(yield[Len(attempted)])

\* a query of several characters found where it stands on the page
C3_Witness ==
    /\ pc = "done" /\ fault = "none" /\ trace.error = "none"
    /\ Len(search_text) >= 2
    /\ Find(page_text, search_text) > 0
    /\ result # <<>>

\* C4: when page text and query differ only in whitespace, strategy 2, once
\* attempted, yields rectangles
C4_WhitespaceOnly ==
    (/\ pc = "done" /\ fault = "none" /\ trace.error = "none"
     /\ page_text # search_text
     /\ normalize_whitespace(page_text) = normalize_whitespace(search_text)
     /\ Len(attempted) >= 2)
    => yield[2] # <<>>

\* C5: when the query is a phrase of the page with the page's curly quotes
\* written straight, and strategies 1 and 2 found nothing, strategy 3 yields
\* the rectangles of the call
C5_StraightQuotes ==
    LET Straight(c) == IF c \in {"u201C", "u201D"} THEN "\"" ELSE c
        n == Len(search_text)
    IN  (/\ pc = "done" /\ fault = "none" /\ trace.error = "none"
         /\ n > 0
         /\ \E o \in 0..(Len(page_text) - n) :
               /\ \A i \in 1..n : Straight(page_text[o + i]) = search_text[i]
               /\ \E i \in 1..n : page_text[o + i] # search_text[i]
         /\ Len(attempted) >= 3)
        => /\ yield[3] # <<>>
           /\ result = format_results(yield[3])

\* C6 (as amended): get_words_in_range returns, each once and in list order,
\* the rectangles of the words whose range shares a position with
\* [start, end), and, when start >= end, those of the words with
\* charStart < end <= start < charEnd
C6_WordsInRange ==
    (call.op = "get_words_in_range" /\ call.returned) =>
        LET off == call.offsets
            shares(k) == (off[k].word_start..(off[k].word_end - 1))
                            \cap (call.start_pos..(call.end_pos - 1)) # {}
            around(k) == /\ call.start_pos >= call.end_pos
                         /\ off[k].word_start < call.end_pos
                         /\ call.start_pos < off[k].word_end
        IN  call.ret = At([k \in 1..Len(call.words) |-> call.words[k].rect],
                          SortedSeq({k \in 1..Len(call.words) :
                                        shares(k) \/ around(k)}))

\* C6 as stated: the words returned are exactly those whose range shares a
\* position with [start, end), none when start >= end
C6_AsStated ==
    (call.op = "get_words_in_range" /\ call.returned) =>
        LET off == call.offsets
            shares(k) == (off[k].word_start..(off[k].word_end - 1))
                            \cap (call.start_pos..(call.end_pos - 1)) # {}
        IN  call.ret = At([k \in 1..Len(call.words) |-> call.words[k].rect],
                          SortedSeq({k \in 1..Len(call.words) : shares(k)}))

\* a call with start >= end that returned a word
C6_Witness ==
    /\ call.op = "get_words_in_range" /\ call.returned
    /\ call.start_pos >= call.end_pos
    /\ call.ret # <<>>

\* C7: the offsets the walk assigns: charStart < charEnd for every word,
\* strictly increasing along the list, the next charStart one more than the
\* previous charEnd
C7_Offsets ==
    (call.op = "get_words_in_range" /\ call.returned) =>
        LET off == call.offsets
        IN  /\ Len(off) = Len(call.words)
            /\ \A k \in 1..Len(off) : off[k].word_start < off[k].word_end
            /\ \A k \in 1..(Len(off) - 1) :
                  /\ off[k].word_start < off[k + 1].word_start
                  /\ off[k + 1].word_start = off[k].word_end + 1

\* a walk over three words
C7_Witness ==
    /\ call.op = "get_words_in_range" /\ call.returned
    /\ Len(call.offsets) = 3

\* C8: normalize_whitespace and normalize_text_aggressive never return a
\* string longer than their input, and return their own output unchanged
C8_Normalizers ==
    (call.op \in {"normalize_whitespace", "normalize_text_aggressive"}) =>
        /\ Len(call.outs) >= 1 => Len(call.outs[1]) <= Len(call.text)
        /\ Len(call.outs) = 2 => call.outs[2] = call.outs[1]

\* normalize_text_aggressive applied twice to a string it shortens
C8_Witness ==
    /\ call.op = "normalize_text_aggressive"
    /\ Len(call.outs) = 2
    /\ call.outs[1] # <<>>
    /\ Len(call.outs[1]) < Len(call.text)

\* C9: when the fuzzy scanner accepts a window that starts after a place
\* where normalization shortened the page text, the rectangles it returns
\* are those of the words of the original page text the window derives from
C9_OriginalRange ==
    LET tagged == IF fn = "find_text_in_pdf"
                  THEN AggressiveTagged(Tag(page_text))
                  ELSE SelAggressiveTagged(Tag(page_text))
        orig == Origins(tagged)
        p == trace.fuzzy.position
        last == Min(p + Len(search_text), Len(orig))
        words == get_text_words(page_text)
        starts == SortedSeq({i \in 1..Len(page_text) :
                               page_text[i] \notin Whitespace
                               /\ (i = 1 \/ page_text[i - 1] \in Whitespace)})
        inside(k) == /\ starts[k] <= orig[last]
                     /\ starts[k] + Len(words[k].text) - 1 >= orig[p + 1]
    IN  (/\ trace.fuzzy.hit
         /\ p + 1 <= last
         /\ orig[p + 1] # p + 1)
        => trace.fuzzy.rects = At([k \in 1..Len(words) |-> words[k].rect],
                                  SortedSeq({k \in 1..Len(words) : inside(k)}))

\* C10: a query of more than 100 characters whose first 50 and last 50
\* characters stand on the page, and whose middle does not, gets rectangles
C10_AnchorsSuffice ==
    LET n == Len(search_text)
    IN  (/\ fn = "find_text_in_pdf"
         /\ pc = "done" /\ fault = "none" /\ trace.error = "none"
         /\ n > 100
         /\ Find(page_text, Slice(search_text, 0, 50)) # -1
         /\ Find(page_text, Slice(search_text, n - 50, n)) # -1
         /\ Find(page_text, Slice(search_text, 50, n - 50)) = -1)
        => result # <<>>

\* C11: when the start anchor or the end anchor is found neither by the raw nor
\* by the whitespace-normalized search, find_text_by_start_and_end_anchors
\* returns None.  Called by the anchor strategy (7), the cascade then goes on to
\* strategy 8; called by the first-sentence strategy (6), the cascade returns
\* the expansion of the first-sentence match.
C11_AnchorsNone ==
    LET n == Len(search_text)
        tried(s) == \E i \in 1..Len(attempted) : attempted[i] = s
        missing(anchor) == search_then_normalized(page_text, anchor) = <<>>
    IN  /\ (/\ tried(7)
            /\ \/ missing(Slice(search_text, 0, 50))
               \/ missing(Slice(search_text, n - 50, n)))
           => /\ trace.anchors7.none
              /\ yield[7] = <<>>
              /\ pc = "s8" \/ tried(8)
        /\ (/\ trace.anchors6.via # "idle"
            /\ \/ missing(trace.sentence)
               \/ missing(Slice(search_text, n - 50, n)))
           => /\ trace.anchors6.none
              /\ pc = "done" /\ outcome = "returned"
              /\ yield[6] # <<>> /\ result = format_results(yield[6])
              /\ yield[6] = expand_rectangles_for_long_text(trace.matched,
                                Len(trace.sentence), n, Rat(page_width),
                                Rat(page_height))

\* C11 as stated: whichever strategy called the anchor method, a missing anchor
\* makes it return None and the cascade go on to the next strategy
C11_AsStated ==
    LET n == Len(search_text)
        missing(anchor) == search_then_normalized(page_text, anchor) = <<>>
    IN  /\ (/\ trace.anchors7.via # "idle"
            /\ \/ missing(Slice(search_text, 0, 50))
               \/ missing(Slice(search_text, n - 50, n)))
           => trace.anchors7.none /\ yield[7] = <<>> /\ pc # "done"
        /\ (/\ trace.anchors6.via # "idle"
            /\ \/ missing(trace.sentence)
               \/ missing(Slice(search_text, n - 50, n)))
           => trace.anchors6.none /\ yield[6] = <<>> /\ pc # "done"

\* the anchor strategy ran on a page without the start anchor, and the first
\* 100 characters were searched for after it
C11_Witness ==
    /\ fault = "none"
    /\ \E i \in 1..Len(attempted) : attempted[i] = 7
    /\ search_then_normalized(page_text, Slice(search_text, 0, 50)) = <<>>
    /\ trace.anchors7 = [none |-> TRUE, via |-> "start"]
    /\ attempted[Len(attempted)] = 8

\* C12: when strategy 8 ends the call, the expanded rectangles cover strictly
\* more than the match of the first 100 characters: their widths add up to
\* more, or there are more of them
C12_ExpansionCovers ==
    LET RECURSIVE total_width(_)
        total_width(rects) ==
            IF rects = <<>> THEN Rat(0)
            ELSE RAdd(RectWidth(rects[1]), total_width(Tail(rects)))
    IN  (/\ fn = "find_text_in_pdf" /\ pc = "done"
         /\ attempted # <<>> /\ attempted[Len(attempted)] = 8
         /\ yield[8] # <<>>)
        => \/ RLt(total_width(trace.matched), total_width(yield[8]))
           \/ Len(yield[8]) > Len(trace.matched)

\* C13: a page number outside 1..pageCount (the document has one page) or an
\* empty query is rejected before any strategy runs: no strategy is attempted
C13_InputRejected ==
    (page_num # 1 \/ search_text = <<>>) => attempted = <<>>

\* C14: the output of normalize_text_aggressive has no hyphen directly before
\* whitespace, no soft hyphen, no whitespace but single spaces, no whitespace
\* directly before , . ! ? ; : and none at its ends; of the quote family it
\* has the sentinel only and of the dash family the ASCII hyphen only
C14_AggressiveShape ==
    (call.op = "normalize_text_aggressive" /\ Len(call.outs) >= 1) =>
        LET out == call.outs[1]
            n == Len(out)
            orig == Origins(AggressiveTagged(Tag(call.text)))
        IN  /\ \A i \in 1..(n - 1) :
                  /\ ~(out[i] = "-" /\ out[i + 1] \in Whitespace)
                  /\ ~(out[i] \in Whitespace /\ out[i + 1] \in Whitespace)
                  /\ ~(out[i] \in Whitespace /\ out[i + 1] \in Punctuation)
            /\ \A i \in 1..n :
                  /\ out[i] # SoftHyphen
                  /\ out[i] \in Whitespace => out[i] = " "
                  /\ out[i] \notin QuoteChars
                  /\ out[i] \notin DashChars
            /\ n > 0 => out[1] \notin Whitespace /\ out[n] \notin Whitespace
            /\ \A i \in 1..Len(orig) :
                  /\ call.text[orig[i]] \in QuoteChars => out[i] = "@"
                  /\ call.text[orig[i]] \in DashChars => out[i] = "-"

\* a curly quote, then an en dash that ends a line before a full stop
C14_Witness ==
    /\ call.op = "normalize_text_aggressive"
    /\ call.text = <<"u201C", "u2013", "\n", ".">>
    /\ call.outs = <<<<"@", ".">>>>

\* C15: the fuzzy scanner takes windows of the normalized page as long as the
\* normalized query, at the offsets 0, step, 2*step, ... up to the last one at
\* which such a window fits, with step = min(10, max(5, len(query) // 20))
C15_Windows ==
    LET normalized(t) == IF fn = "find_text_in_pdf"
                         THEN lower(normalize_text_aggressive(t))
                         ELSE lower(sel_normalize_text_aggressive(t))
        step == Min(10, Max(5, Len(search_text) \div 20))
        last == Len(normalized(page_text)) - Len(normalized(search_text))
    IN  (/\ \E i \in 1..Len(attempted) : attempted[i] = 4
         /\ trace.error # "s4" /\ ~trace.fuzzy.raised)
        => /\ trace.fuzzy.window = Len(normalized(search_text))
           /\ trace.fuzzy.compared = SortedSeq({i \in 0..last : i % step = 0})

\* C16: the fuzzy scan stops at the first window with ratio > 0.95: it is the
\* last window compared, and its offset is the best offset reported
C16_EarlyExit ==
    LET f == trace.fuzzy
    IN  \A k \in 1..Len(f.compared) :
           RLt(Frac(95, 100), f.ratios[k]) =>
               k = Len(f.compared) /\ f.position = f.compared[k]

\* C17: the fuzzy strategy (4) yields rectangles only if the best ratio is at
\* least the effective threshold, 0.90 for a query of fewer than 50 characters
\* and 0.85 otherwise; below it the strategy yields nothing and the cascade
\* goes on
C17_Threshold ==
    LET effective == IF Len(search_text) < 50
                     THEN Frac(90, 100) ELSE DefaultThreshold
    IN  (/\ \E i \in 1..Len(attempted) : attempted[i] = 4
         /\ trace.error # "s4")
        => /\ yield[4] # <<>> => RLe(effective, trace.fuzzy.ratio)
           /\ RLt(trace.fuzzy.ratio, effective) =>
                 /\ yield[4] = <<>>
                 /\ \/ pc \in {"s5", "nomatch"}
                    \/ fn = "find_text_in_pdf" /\ Len(attempted) > 4
                    \/ fn = "get_selection_rectangles" /\ pc = "done" /\ result = <<>>

C19_CaseInsensitive ==
    LET i == Find(lower(page_text), lower(search_text))
        j == Find(lower(normalize_whitespace(page_text)),
                  lower(normalize_whitespace(search_text)))
    IN  (/\ fn = "find_text_in_pdf"
         /\ \E k \in 1..Len(attempted) : attempted[k] = 5
         /\ trace.error # "s5")
        => /\ i # -1 =>
                /\ trace.literal = Slice(page_text, i, i + Len(search_text))
                /\ lower(trace.literal) = lower(search_text)
           /\ (i = -1 /\ j = -1) => yield[5] = <<>>

\* C20: the first-sentence strategy (6) searches the page if and only if the
\* query has more than 100 characters and its first sentence, the text up to
\* and including the first . ! or ? before whitespace or the end, exists and
\* has at least 20 characters; when the sentence is found, what the anchor
\* method yields is returned, and the expansion only if that is nothing
C20_FirstSentence ==
    LET fs == extract_first_sentence(search_text)
        searched == trace.sentence # <<>> \/ trace.error = "s6"
    IN  (/\ fn = "find_text_in_pdf"
         /\ \/ pc \in {"s7", "s8", "nomatch"}
            \/ \E k \in 1..Len(attempted) : attempted[k] = 6)
        => /\ searched <=> /\ Len(search_text) > 100
                           /\ fs.found /\ Len(fs.text) >= 20
           /\ trace.matched # <<>> /\ yield[6] # <<>> =>
                 /\ trace.anchors6.via # "idle"
                 /\ trace.anchors6.none =>
                       yield[6] = expand_rectangles_for_long_text(trace.matched,
                                      Len(trace.sentence), Len(search_text),
                                      Rat(page_width), Rat(page_height))

\* C21: with 0 < matched_length <= full_length, when the extended right edge
\* stays below 95% of the page's right edge the matched rectangle expands to
\* one rectangle with the same x0, y0 and y1 and the right edge
\* x1 + (width / matched_length) * (full_length - matched_length); no
\* rectangle of any expansion reaches beyond the page's right edge
C21_Extension ==
    (call.op = "expand_rectangles_for_long_text" /\ call.returned) =>
        LET r == call.rect
            edge == RAdd(r.x1, RMul(RDiv(RSub(r.x1, r.x0), Rat(call.matched_length)),
                                    Rat(call.full_length - call.matched_length)))
        IN  /\ RLt(edge, RMul(Rat(call.pw), Frac(95, 100))) =>
                  call.ret = <<[x0 |-> r.x0, y0 |-> r.y0, x1 |-> edge, y1 |-> r.y1]>>
            /\ \A k \in 1..Len(call.ret) : RLe(call.ret[k].x1, Rat(call.pw))

\* a rectangle widened to less than 95% of the page's width
C21_Witness ==
    /\ call.op = "expand_rectangles_for_long_text" /\ call.returned
    /\ ~call.multi_line
    /\ Len(call.ret) = 1
    /\ RLt(call.rect.x1, call.ret[1].x1)
    /\ RLt(call.ret[1].x1, RMul(Rat(call.pw), Frac(95, 100)))

\* C22: in the multi-line branch the number of lines estimated is
\* ceil(full_length / charsPerLine), charsPerLine being matched_length, also
\* when full_length is an exact multiple of it
C22_LinesCeiling ==
    (/\ call.op = "expand_rectangles_for_long_text" /\ call.returned
     /\ call.multi_line)
    => call.estimated_lines =
          (call.full_length + call.matched_length - 1) \div call.matched_length

\* C23: every rectangle the multi-line branch makes for a line after the first
\* has the matched rectangle's left edge, lies 1.2 x line height x line number
\* below it and ends at or above the page's bottom edge; the lines that would
\* end below the page's bottom edge are not in the result
C23_SynthesizedLines ==
    (/\ call.op = "expand_rectangles_for_long_text" /\ call.returned
     /\ call.multi_line)
    => LET r == call.rect
           down(k) == RMul(RMul(RSub(r.y1, r.y0), Frac(12, 10)), Rat(k))
           fitting == {k \in 1..(call.estimated_lines - 1) :
                          RLe(RAdd(r.y1, down(k)), Rat(call.ph))}
       IN  /\ call.ret # <<>> /\ call.ret[1] = r
           /\ Len(call.ret) = 1 + Cardinality(fitting)
           /\ \A k \in 1..(Len(call.ret) - 1) :
                 /\ k \in fitting
                 /\ call.ret[k + 1].x0 = r.x0
                 /\ call.ret[k + 1].y0 = RAdd(r.y0, down(k))
                 /\ call.ret[k + 1].y1 = RAdd(r.y1, down(k))
                 /\ RLe(call.ret[k + 1].y1, Rat(call.ph))

\* the multi-line branch estimated four lines and the page holds two of them
C23_Witness ==
    /\ call.op = "expand_rectangles_for_long_text" /\ call.returned
    /\ call.multi_line
    /\ call.estimated_lines = 4
    /\ Len(call.ret) = 2

\* C24: normalize_text_aggressive of get_pdf_selection_rects.py returns what
\* normalize_text_aggressive of find_text_in_pdf.py returns for the same string
C24_SameNormalizer ==
    (call.op = "sel_normalize_text_aggressive" /\ call.outs # <<>>) =>
        call.outs[1] = normalize_text_aggressive(call.text)

\* C25: for the same page and query, when get_selection_rectangles returns
\* rectangles (from its exact, whitespace, aggressive or fuzzy strategy)
\* find_text_in_pdf returns the same list, and when find_text_in_pdf returns
\* rectangles from its exact, whitespace-normalized or fuzzy strategy
\* get_selection_rectangles has returned the same list
C25_SameStrategies ==
    (/\ fn = "find_text_in_pdf" /\ pc = "done"
     /\ call.op = "get_selection_rectangles")
    => /\ call.result # <<>> => result = call.result
       /\ (/\ result # <<>>
           /\ attempted[Len(attempted)] \in {1, 2, 4})
          => call.result = result

\* C26: every call of either entry point reaches its return in a bounded number
\* of steps: each step moves the call forward in the order of the strategies,
\* no strategy is attempted twice, the offsets the fuzzy scan compares are one
\* step apart, the step is at least 5, and there are at most
\* floor((len(normalizedPage) - len(query)) / step) + 1 of them when there
\* are any
C26_Terminates ==
    /\ [][StrategyOrder[pc'] > StrategyOrder[pc]]_vars
    /\ [](LET normalizedPage == IF fn = "find_text_in_pdf"
                                THEN lower(normalize_text_aggressive(page_text))
                                ELSE lower(sel_normalize_text_aggressive(page_text))
              step == IF fn = "find_text_in_pdf"
                      THEN Min(10, Max(5, Len(search_text) \div 20))
                      ELSE IF Len(search_text) < 100 THEN 5 ELSE 10
              compared == trace.fuzzy.compared
          IN  /\ pc \in DOMAIN StrategyOrder
              /\ \A i, j \in 1..Len(attempted) : i # j => attempted[i] # attempted[j]
              /\ step >= 5
              /\ \A k \in 1..(Len(compared) - 1) : compared[k + 1] = compared[k] + step
              /\ compared # <<>> =>
                     Len(compared) <=
                       ((Len(normalizedPage) - Len(search_text)) \div step) + 1)

\* C26 as stated: the number of comparisons is at most
\* floor((len(normalizedPage) - len(query)) / step) + 1 in every call
C26_AsStated ==
    LET normalizedPage == IF fn = "find_text_in_pdf"
                          THEN lower(normalize_text_aggressive(page_text))
                          ELSE lower(sel_normalize_text_aggressive(page_text))
        step == IF fn = "find_text_in_pdf"
                THEN Min(10, Max(5, Len(search_text) \div 20))
                ELSE IF Len(search_text) < 100 THEN 5 ELSE 10
    IN  pc = "done" =>
            Len(trace.fuzzy.compared) <=
                ((Len(normalizedPage) - Len(search_text)) \div step) + 1

\* a call that tried five strategies or more has returned, and its fuzzy scan
\* compared as many windows as the bound allows, more than one
C26_Witness ==
    /\ fn = "find_text_in_pdf" /\ pc = "done"
    /\ Len(attempted) >= 5
    /\ Len(trace.fuzzy.compared) > 1
    /\ Len(trace.fuzzy.compared) =
          ((Len(lower(normalize_text_aggressive(page_text))) - Len(search_text))
             \div Min(10, Max(5, Len(search_text) \div 20))) + 1

\* C27: when find_text_in_pdf returns other than through its exception handler
\* the document has been closed once and is closed; while a strategy can still
\* run the document is open and has not been closed
C27_ClosedOnce ==
    fn = "find_text_in_pdf" =>
        /\ (pc = "done" /\ trace.error = "none") =>
               doc.state = "closed" /\ doc.closes = 1
        /\ pc \in {"s1", "s2", "s3", "s4", "s5", "s6", "s7", "s8", "nomatch"} =>
               doc.state = "open" /\ doc.closes = 0
        /\ doc.state = "closed" => pc = "done"

\* a call that went through all eight strategies and found nothing has closed
\* the document and returned no rectangle
C27_Witness ==
    /\ fn = "find_text_in_pdf" /\ pc = "done" /\ trace.error = "none"
    /\ attempted = <<1, 2, 3, 4, 5, 6, 7, 8>>
    /\ result = <<>>
    /\ doc = [state |-> "closed", closes |-> 1]

\* C28: when the query has more than 100 characters and the search of strategy 6
\* finds its first sentence (of more than 20 characters) on the page, the step
\* of strategy 6 is the return of the call, with a list of rectangles that is
\* not empty, whatever the anchor method returned; strategies 7 and 8 are
\* attempted in no call whose first sentence is found
C28_FirstSentenceReturns ==
    /\ [][(/\ fn = "find_text_in_pdf" /\ pc = "s6"
           /\ Len(search_text) > 100 /\ fault # "s6"
           /\ LET fs == extract_first_sentence(search_text)
              IN  /\ fs.found /\ Len(fs.text) > 20
                  /\ search_then_normalized(page_text, fs.text) # <<>>)
          => /\ pc' = "done" /\ outcome' = "returned"
             /\ attempted' = Append(attempted, 6)
             /\ yield'[6] # <<>>
             /\ result' # <<>>
             /\ Len(result') = Len(yield'[6])]_vars
    /\ []((/\ fn = "find_text_in_pdf"
           /\ \E i \in 1..Len(attempted) : attempted[i] \in {7, 8})
          => LET fs == extract_first_sentence(search_text)
             IN  ~(/\ fs.found /\ Len(fs.text) > 20 /\ fault # "s6"
                   /\ search_then_normalized(page_text, fs.text) # <<>>))

\* strategy 6 found the first sentence, the anchor method returned None, and
\* the call returned the expanded rectangles without going on to strategy 7
C28_Witness ==
    /\ fn = "find_text_in_pdf" /\ pc = "done" /\ outcome = "returned"
    /\ attempted = <<1, 2, 3, 4, 5, 6>>
    /\ trace.matched # <<>>
    /\ trace.anchors6.none
    /\ result # <<>>

\* C29: an exception inside fuzzy_search_in_page of find_text_in_pdf.py makes it
\* return no rectangle and ratio 0.0, and the call goes on to strategy 5 as
\* after a scan that found nothing, without entering the handler of
\* find_text_in_pdf; an exception inside find_text_by_start_and_end_anchors
\* makes it return None, and the call goes on as for any None: to strategy 8
\* from strategy 7, to the expansion of the first-sentence match in strategy 6
C29_ExceptionsSwallowed ==
    /\ [][(fn = "find_text_in_pdf" /\ pc = "s4" /\ fault = "s4")
          => /\ trace'.fuzzy.raised
             /\ trace'.fuzzy.rects = <<>>
             /\ trace'.fuzzy.ratio = Rat(0)
             /\ trace'.error = "none"
             /\ pc' = "s5"
             /\ attempted' = Append(attempted, 4)
             /\ yield' = [yield EXCEPT ![4] = <<>>]
             /\ UNCHANGED <<result, outcome, doc>>]_vars
    /\ [][(/\ fn = "find_text_in_pdf" /\ pc = "s7" /\ fault = "s7"
           /\ Len(search_text) > 100)
          => /\ trace'.anchors7 = [none |-> TRUE, via |-> "exception"]
             /\ trace'.error = "none"
             /\ pc' = "s8"
             /\ yield' = [yield EXCEPT ![7] = <<>>]
             /\ UNCHANGED <<result, outcome, doc>>]_vars
    /\ [][(/\ fn = "find_text_in_pdf" /\ pc = "s6" /\ fault = "s6anchor"
           /\ trace'.matched # <<>>)
          => /\ trace'.anchors6 = [none |-> TRUE, via |-> "exception"]
             /\ trace'.error = "none"
             /\ outcome' = "returned"
             /\ result' = format_results(expand_rectangles_for_long_text(
                               trace'.matched, Len(trace'.sentence),
                               Len(search_text), Rat(page_width),
                               Rat(page_height)))]_vars

\* the fuzzy search raised, and the case-insensitive strategy that ran after it
\* found the rectangles the call returned
C29_Witness ==
    /\ fn = "find_text_in_pdf" /\ fault = "s4" /\ pc = "done"
    /\ trace.fuzzy.raised
    /\ attempted = <<1, 2, 3, 4, 5>>
    /\ yield[5] # <<>>
    /\ result = format_results(yield[5])

\* C30: a fuzzy scan whose query is longer than the normalized page text
\* compares no window, reports ratio 0.0 and returns no rectangle; every other
\* scan compares a window, and when the ratio it reports is positive the offset
\* it reports is a multiple of the step in [0, len(normalizedPage) - len(query)]
C30_Offsets ==
    LET f == trace.fuzzy
        normalizedPage == IF fn = "find_text_in_pdf"
                          THEN lower(normalize_text_aggressive(page_text))
                          ELSE lower(sel_normalize_text_aggressive(page_text))
        last == Len(normalizedPage) - Len(search_text)
        step == IF fn = "find_text_in_pdf"
                THEN Min(10, Max(5, Len(search_text) \div 20))
                ELSE IF Len(search_text) < 100 THEN 5 ELSE 10
    IN  (/\ \E i \in 1..Len(attempted) : attempted[i] = 4
         /\ trace.error # "s4" /\ ~f.raised)
        => IF last < 0
           THEN f.compared = <<>> /\ f.ratio = Rat(0) /\ f.rects = <<>>
           ELSE /\ f.compared # <<>>
                /\ RLt(Rat(0), f.ratio) =>
                      f.position % step = 0 /\ f.position \in 0..last
                /\ f.rects # <<>> => RLt(Rat(0), f.ratio)

\* C30 as stated: whenever the query is not longer than the normalized page
\* text, the offset the scan reports is a multiple of the step in
\* [0, len(normalizedPage) - len(query)]
C30_AsStated ==
    LET f == trace.fuzzy
        normalizedPage == IF fn = "find_text_in_pdf"
                          THEN lower(normalize_text_aggressive(page_text))
                          ELSE lower(sel_normalize_text_aggressive(page_text))
        last == Len(normalizedPage) - Len(search_text)
        step == IF fn = "find_text_in_pdf"
                THEN Min(10, Max(5, Len(search_text) \div 20))
                ELSE IF Len(search_text) < 100 THEN 5 ELSE 10
    IN  (/\ \E i \in 1..Len(attempted) : attempted[i] = 4
         /\ trace.error # "s4" /\ ~f.raised
         /\ last >= 0)
        => f.position % step = 0 /\ f.position \in 0..last

\* the page text is as long as the query, its normalized text is shorter, and
\* the scan has compared no window
C30_Witness ==
    /\ \E i \in 1..Len(attempted) : attempted[i] = 4
    /\ ~trace.fuzzy.raised /\ trace.error = "none"
    /\ Len(page_text) >= Len(search_text)
    /\ Len(search_text) > Len(IF fn = "find_text_in_pdf"
                               THEN lower(normalize_text_aggressive(page_text))
                               ELSE lower(sel_normalize_text_aggressive(page_text)))
    /\ trace.fuzzy.compared = <<>>
    /\ trace.fuzzy.ratio = Rat(0)

====
